---- MODULE Spec2Model ----
(***************************************************************************)
(* Model of the Joyan logo scripts: analyze_logos.py, crop_logos.py,       *)
(* crop_logos_v2.py and crop_logos_tight.py.  Each script lists a          *)
(* directory in sorted order and, per eligible file, opens the image,      *)
(* finds the content box, pads it, crops, (for two scripts) pastes the     *)
(* crop on a square white canvas, and saves a JPEG.                        *)
(*                                                                         *)
(* An image is a record [mode, w, h, px]; px maps <<x, y>> to a pixel      *)
(* <<r, g, b, a>> (a = 255 in mode "RGB").  Fractions are percentages:     *)
(* border_threshold = 5 stands for the code's 0.05, and int(w * 0.05) is   *)
(* taken as the exact floor (w * 5) \div 100, which is what the floating   *)
(* point product gives for the sizes and fractions explored here.          *)
(* int(c * percent / 100) is the exact floor for every integer c, percent. *)
(***************************************************************************)
EXTENDS Integers, Sequences, FiniteSets, TLC

\* ----------------------------------------------------------------- bounds
\* Largest number of pixels (width * height) of an input image.
MaxArea == 4

\* ------------------------------------------------------ program constants
MaxChannel == 255
WhiteLevel == 240
BlackLevel == 15
AlphaLevel == 50
DefaultBorder == 5
PaddingLogos == 8
PaddingV2 == 10
PaddingTight == 5
NeedsCropLevel == 15

\* Python's None where a box is expected: the empty tuple.
None == <<>>

Max(a, b) == IF a >= b THEN a ELSE b
Min(a, b) == IF a <= b THEN a ELSE b
SetMin(S) == CHOOSE m \in S : \A n \in S : m <= n
SetMax(S) == CHOOSE m \in S : \A n \in S : m >= n

\* ------------------------------------------------------------ pixel level
White == <<255, 255, 255, 255>>
Black == <<0, 0, 0, 255>>

\* Pillow's 8-bit blend of `src` over `dst` through mask value `m`:
\* tmp = dst*(255-m) + src*m + 128; ((tmp >> 8) + tmp) >> 8.
Blend8(dst, src, m) ==
    LET tmp == dst * (MaxChannel - m) + src * m + 128
    IN  ((tmp \div 256) + tmp) \div 256

\* bg = Image.new('RGB', size, white); bg.paste(img, mask=alpha): one pixel.
CompositeOnWhite(p) ==
    <<Blend8(MaxChannel, p[1], p[4]), Blend8(MaxChannel, p[2], p[4]),
      Blend8(MaxChannel, p[3], p[4]), MaxChannel>>

\* The conversion at the head of each detector: RGBA is flattened on white.
ToRGB(img) ==
    IF img.mode = "RGBA"
    THEN [img EXCEPT !.mode = "RGB",
                     !.px = [c \in DOMAIN img.px |-> CompositeOnWhite(img.px[c])]]
    ELSE img

\* img.convert('RGBA') of an RGB image: alpha 255 everywhere.
ToRGBA(img) == [img EXCEPT !.mode = "RGBA"]

is_white(p) == p[1] > WhiteLevel /\ p[2] > WhiteLevel /\ p[3] > WhiteLevel
is_black(p) == p[1] < BlackLevel /\ p[2] < BlackLevel /\ p[3] < BlackLevel

\* content_mask = ~(is_white | is_black)
MidToneMask(p) == ~(is_white(p) \/ is_black(p))
\* content_mask = ~is_white
NonWhiteMaskSame(p) == ~(is_white(p) \/ is_black(p))

NonWhiteMask(p) == ~is_white(p)
\* analyze_logo: (alpha > 50) & ((r < 240) | (g < 240) | (b < 240))
AnalyzeMaskNoAlpha(p) ==
    p[1] < WhiteLevel \/ p[2] < WhiteLevel \/ p[3] < WhiteLevel

AnalyzeMask(p) ==
    p[4] > AlphaLevel /\ (p[1] < WhiteLevel \/ p[2] < WhiteLevel \/ p[3] < WhiteLevel)
\* ImageChops.difference(img, white).getbbox(): any channel differs from 255
DiffMask(p) == p[1] # MaxChannel \/ p[2] # MaxChannel \/ p[3] # MaxChannel

\* The content mask of one pixel under the named rule.
MaskValue(rule, p) ==
    CASE rule = "midtone" -> MidToneMask(p)
      [] rule = "nonwhite" -> NonWhiteMask(p)
      [] rule = "analyze" -> AnalyzeMask(p)
      [] rule = "diff" -> DiffMask(p)

\* ------------------------------------------------------------ array level
\* Python's a[start:stop] on an axis of length n, start >= 0: the indices kept.
PySliceStart(start, n) == Min(start, n)
PySliceStop(stop, n) == IF stop < 0 THEN Max(stop + n, 0) ELSE Min(stop, n)
PySlice(start, stop, n) == PySliceStart(start, n) .. (PySliceStop(stop, n) - 1)

\* int(size * border_threshold), border_threshold given in percent
BorderSizeNoScale(size, percent) == percent \div 100

BorderSize(size, percent) == (size * percent) \div 100

\* Bounding box <<x_min, y_min, x_max, y_max>> (inclusive) of the true pixels of a mask over columns xs and rows ys of
\* img, in the coordinates of the array the mask was built on: np.any along
\* each axis, np.where, first and last index.  base_x/base_y is the index of
\* the first kept column/row in the full image.
MaskBounds(img, xs, ys, base_x, base_y, rule) ==
    LET rows == {y \in ys : \E x \in xs : MaskValue(rule, img.px[<<x, y>>])}
        cols == {x \in xs : \E y \in ys : MaskValue(rule, img.px[<<x, y>>])}
    IN  IF rows = {} \/ cols = {}
        THEN None
        ELSE <<SetMin(cols) - base_x, SetMin(rows) - base_y,
               SetMax(cols) - base_x, SetMax(rows) - base_y>>

\* content_mask.any()
AnyTrue(img, xs, ys, rule) ==
    \E x \in xs : \E y \in ys : MaskValue(rule, img.px[<<x, y>>])

\* "Convert back to full image coordinates" and the returned tuple
\* (x_min, y_min, x_max + 1, y_max + 1); b is relative to the interior.
ToFullImageNoPlusOne(b, border_x, border_y) ==
    <<b[1] + border_x, b[2] + border_y, b[3] + border_x, b[4] + border_y>>

ToFullImageNoShift(b, border_x, border_y) ==
    <<b[1], b[2], b[3] + 1, b[4] + 1>>

ToFullImage(b, border_x, border_y) ==
    <<b[1] + border_x, b[2] + border_y, b[3] + border_x + 1, b[4] + border_y + 1>>

\* find_tight_content / remove_border_and_find_content (identical bodies).
\* Returns [box, fallback]: box is None or <<x_min, y_min, x_max, y_max>>
\* (upper bounds exclusive); fallback counts the uses of the non-white mask.
FindContent(image, border_threshold) ==
    LET img == ToRGB(image)
        width == img.w
        height == img.h
        border_x == BorderSize(width, border_threshold)
        border_y == BorderSize(height, border_threshold)
        xs == PySlice(border_x, width - border_x, width)
        ys == PySlice(border_y, height - border_y, height)
        base_x == PySliceStart(border_x, width)
        base_y == PySliceStart(border_y, height)
    IN  IF xs = {} \/ ys = {}
        THEN [box |-> None, fallback |-> 0]
        ELSE LET first == AnyTrue(img, xs, ys, "midtone")
                 b == IF first
                      THEN MaskBounds(img, xs, ys, base_x, base_y, "midtone")
                      ELSE MaskBounds(img, xs, ys, base_x, base_y, "nonwhite")
                 fb == IF first THEN 0 ELSE 1
             IN  IF b = None
                 THEN [box |-> None, fallback |-> fb]
                 ELSE [box |-> ToFullImage(b, border_x, border_y), fallback |-> fb]

\* get_content_bounds of crop_logos.py: getbbox of the difference to white.
GetContentBounds(image) ==
    LET img == ToRGB(image)
        b == MaskBounds(img, 0 .. img.w - 1, 0 .. img.h - 1, 0, 0, "diff")
    IN  IF b = None THEN None
        ELSE <<b[1], b[2], b[3] + 1, b[4] + 1>>

\* analyze_logo's detector: content_bounds with inclusive upper bounds.
AnalyzeBounds(image) ==
    LET img == ToRGBA(image)
        b == MaskBounds(img, 0 .. img.w - 1, 0 .. img.h - 1, 0, 0, "analyze")
    IN  b

\* ------------------------------------------------------------- crop level
\* pad_x = int(content_width * padding_percent / 100) and the clamped bounds
\* new_x1, new_y1, new_x2, new_y2.
PadBoxNoClamp(bbox, padding_percent, image_w, image_h) ==
    LET pad_x == ((bbox[3] - bbox[1]) * padding_percent) \div 100
        pad_y == ((bbox[4] - bbox[2]) * padding_percent) \div 100
    IN  <<bbox[1] - pad_x, bbox[2] - pad_y, bbox[3] + pad_x, bbox[4] + pad_y>>

PadBox(bbox, padding_percent, image_w, image_h) ==
    LET x1 == bbox[1]
        y1 == bbox[2]
        x2 == bbox[3]
        y2 == bbox[4]
        content_width == x2 - x1
        content_height == y2 - y1
        pad_x == (content_width * padding_percent) \div 100
        pad_y == (content_height * padding_percent) \div 100
    IN  <<Max(0, x1 - pad_x), Max(0, y1 - pad_y),
          Min(image_w, x2 + pad_x), Min(image_h, y2 + pad_y)>>

\* Pillow's img.crop(box): pixels outside the source read as zero.
CropImage(img, box) ==
    LET w == box[3] - box[1]
        h == box[4] - box[2]
        zero == IF img.mode = "RGBA" THEN <<0, 0, 0, 0>> ELSE Black
    IN  [mode |-> img.mode, w |-> w, h |-> h,
         px |-> [c \in (0 .. w - 1) \X (0 .. h - 1) |->
                   LET sx == c[1] + box[1]
                       sy == c[2] + box[2]
                   IN  IF sx \in 0 .. img.w - 1 /\ sy \in 0 .. img.h - 1
                       THEN img.px[<<sx, sy>>]
                       ELSE zero]]

\* max_dim = max(width, height)
MaxDimWidth(width, height) == width

MaxDim(width, height) == Max(width, height)

\* offset = ((max_dim - width) // 2, (max_dim - height) // 2)
PasteOffsetRoundUp(width, height) ==
    <<(MaxDim(width, height) - width + 1) \div 2,
      (MaxDim(width, height) - height + 1) \div 2>>

PasteOffset(width, height) ==
    LET max_dim == MaxDim(width, height)
    IN  <<(max_dim - width) \div 2, (max_dim - height) \div 2>>

\* One pasted pixel of crop_logos.py: square_img.paste(cropped, offset, cropped)
\* blends all four bands over opaque white through the crop's own alpha;
\* an RGB crop is copied.
PastePixelLogos(mode, p) ==
    IF mode = "RGBA"
    THEN <<Blend8(MaxChannel, p[1], p[4]), Blend8(MaxChannel, p[2], p[4]),
           Blend8(MaxChannel, p[3], p[4]), Blend8(MaxChannel, p[4], p[4])>>
    ELSE p

\* One pasted pixel of crop_logos_v2.py: square_img.paste(cropped, offset) on
\* an RGB canvas copies the colour bands; the canvas has no alpha band.
PastePixelV2(mode, p) == <<p[1], p[2], p[3], MaxChannel>>

\* The square canvas of script s: Image.new(mode, (max_dim, max_dim), white),
\* then paste.
SquareCanvas(cropped, canvas_mode, s) ==
    LET max_dim == MaxDim(cropped.w, cropped.h)
        offset == PasteOffset(cropped.w, cropped.h)
    IN  [mode |-> canvas_mode, w |-> max_dim, h |-> max_dim,
         px |-> [c \in (0 .. max_dim - 1) \X (0 .. max_dim - 1) |->
                   LET cx == c[1] - offset[1]
                       cy == c[2] - offset[2]
                   IN  IF cx \in 0 .. cropped.w - 1 /\ cy \in 0 .. cropped.h - 1
                       THEN IF s = "crop_logos"
                            THEN PastePixelLogos(cropped.mode, cropped.px[<<cx, cy>>])
                            ELSE PastePixelV2(cropped.mode, cropped.px[<<cx, cy>>])
                       ELSE White]]

SquareLogos(cropped) ==
    SquareCanvas(cropped, IF cropped.mode = "RGB" THEN "RGB" ELSE "RGBA",
                 "crop_logos")

SquareV2(cropped) == SquareCanvas(cropped, "RGB", "crop_logos_v2")

\* ------------------------------------------------------------- file names
\* A file name is a tuple of one-character strings.
Chars == <<".", "a", "b", "c", "e", "g", "j", "n", "p", "t", "x">>
Ord(c) == CHOOSE i \in 1 .. Len(Chars) : Chars[i] = c

Ext_jpg == <<".", "j", "p", "g">>
Ext_png == <<".", "p", "n", "g">>
Ext_jpeg == <<".", "j", "p", "e", "g">>

\* str.endswith(suffix)
EndsWith(s, suffix) ==
    /\ Len(s) >= Len(suffix)
    /\ SubSeq(s, Len(s) - Len(suffix) + 1, Len(s)) = suffix

\* filename.endswith(('.jpg', '.png', '.jpeg'))
Eligible(s) == EndsWith(s, Ext_jpg) \/ EndsWith(s, Ext_png) \/ EndsWith(s, Ext_jpeg)

StartsWith(s, prefix) ==
    Len(s) >= Len(prefix) /\ SubSeq(s, 1, Len(prefix)) = prefix

\* str.replace(old, new): every non-overlapping occurrence, left to right.
RECURSIVE Replace(_, _, _)
Replace(s, old, new) ==
    IF s = <<>> THEN <<>>
    ELSE IF StartsWith(s, old)
         THEN new \o Replace(SubSeq(s, Len(old) + 1, Len(s)), old, new)
         ELSE <<Head(s)>> \o Replace(Tail(s), old, new)

\* output_filename = filename.replace('.png', '.jpg')
OutputName(filename) == Replace(filename, Ext_png, Ext_jpg)

\* Python's string order: code point by code point, a prefix sorts first.
RECURSIVE StrLess(_, _)
StrLess(s, t) ==
    IF t = <<>> THEN FALSE
    ELSE IF s = <<>> THEN TRUE
    ELSE IF Head(s) # Head(t) THEN Ord(Head(s)) < Ord(Head(t))
    ELSE StrLess(Tail(s), Tail(t))

\* sorted(os.listdir(logo_dir))
RECURSIVE Sorted(_)
Sorted(S) ==
    IF S = {} THEN <<>>
    ELSE LET m == CHOOSE a \in S : \A b \in S \ {a} : StrLess(a, b)
         IN  <<m>> \o Sorted(S \ {m})

\* ------------------------------------------------------------------ state
VARIABLES
    script,            \* which of the four scripts runs
    border_threshold,  \* find_tight_content's border_threshold, in percent
    padding_percent,   \* the crop function's padding_percent
    disk,              \* logo_dir: file name -> image, Unreadable or Truncated
    listing,           \* sorted(os.listdir(logo_dir))
    idx,               \* position of the for loop in listing
    pc,                \* position inside one iteration
    img,               \* Image.open(input_path)
    found,             \* the detector's result: [box, fallback]
    new_box,           \* (new_x1, new_y1, new_x2, new_y2)
    cropped,           \* img.crop(new_box)
    cropped_img,       \* what the crop function returned / what is saved
    processed,
    skipped,
    outputs,           \* output_dir: file name -> image handed to save()
    visited,           \* history: the files that entered the try block
    needs_cropping     \* analyze_logos.py's list

vars == <<script, border_threshold, padding_percent, disk, listing, idx, pc, img,
          found, new_box, cropped, cropped_img, processed, skipped, outputs,
          visited, needs_cropping>>

config == <<script, border_threshold, padding_percent, disk, listing>>
locals == <<img, found, new_box, cropped, cropped_img>>

CropScripts == {"crop_logos", "crop_logos_v2", "crop_logos_tight"}
Scripts == CropScripts \cup {"analyze_logos"}

\* The padding each script's main loop passes.
ScriptPadding(s) ==
    CASE s = "crop_logos" -> PaddingLogos
      [] s = "crop_logos_v2" -> PaddingV2
      [] s = "crop_logos_tight" -> PaddingTight
      [] OTHER -> 0

\* ----------------------------------------------------------------- inputs
Gray240 == <<240, 240, 240, 255>>
Dark15 == <<15, 15, 15, 255>>
Transparent == <<0, 0, 0, 0>>
Faint == <<0, 0, 0, 50>>
Half == <<0, 0, 0, 128>>

PaletteRGB == {White, Gray240, Dark15, Black}
PaletteRGBA == {Black, Transparent, Faint, Half}

Sizes == {s \in (1 .. MaxArea) \X (1 .. MaxArea) : s[1] * s[2] <= MaxArea}

ImagesOf(mode, palette) ==
    UNION {[mode : {mode}, w : {s[1]}, h : {s[2]},
            px : [(0 .. s[1] - 1) \X (0 .. s[2] - 1) -> palette]] : s \in Sizes}

Images == ImagesOf("RGB", PaletteRGB) \cup ImagesOf("RGBA", PaletteRGBA)

\* Margin and padding arguments the detector and crop functions are driven
\* with: the scripts' own, and larger ones that make borders and pads of
\* one pixel and more on images this small.
BorderChoices == {DefaultBorder, 34, 50, 150}
PaddingChoices(s) == {ScriptPadding(s), 50}

Configs(s) ==
    CASE s = "analyze_logos" -> {<<DefaultBorder, 0>>}
      [] s = "crop_logos" -> {<<DefaultBorder, p>> : p \in PaddingChoices(s)}
      [] s = "crop_logos_v2" -> {<<DefaultBorder, p>> : p \in PaddingChoices(s)}
                                  \cup {<<34, ScriptPadding(s)>>}
      [] OTHER -> {<<b, ScriptPadding(s)>> : b \in BorderChoices}
                    \cup {<<DefaultBorder, p>> : p \in PaddingChoices(s)}

a_jpg == <<"a">> \o Ext_jpg
a_png == <<"a">> \o Ext_png
b_jpeg == <<"b">> \o Ext_jpeg
b_png_png == <<"b">> \o Ext_png \o Ext_png
c_txt == <<"c", ".", "t", "x", "t">>
Names == {a_jpg, a_png, b_jpeg, b_png_png, c_txt}

Pixel1(p) == [mode |-> "RGB", w |-> 1, h |-> 1, px |-> [c \in {<<0, 0>>} |-> p]]
\* A file Image.open rejects, one whose pixel data cannot be decoded, and the
\* value of an image variable not yet assigned.
NotAnImage(why) == [mode |-> why, w |-> 0, h |-> 0, px |-> [c \in {} |-> White]]
Unreadable == NotAnImage("unreadable")
Truncated == NotAnImage("truncated")
NoImage == NotAnImage("unassigned")
BatchContents == {Pixel1(White), Pixel1(Black), Unreadable, Truncated}

IsImage(v) == v.mode \in {"RGB", "RGBA"}

Start(s, cfg, d) ==
    /\ script = s
    /\ border_threshold = cfg[1]
    /\ padding_percent = cfg[2]
    /\ disk = d
    /\ listing = Sorted(DOMAIN d)
    /\ idx = 1
    /\ pc = "loop"
    /\ img = NoImage
    /\ found = [box |-> None, fallback |-> 0]
    /\ new_box = None
    /\ cropped = NoImage
    /\ cropped_img = NoImage
    /\ processed = 0
    /\ skipped = 0
    /\ outputs = <<>>
    /\ visited = <<>>
    /\ needs_cropping = <<>>

\* One file in the directory: every image, every argument choice; and the
\* files that are not images.
Init ==
    \E s \in Scripts :
        \/ \E cfg \in Configs(s), im \in Images :
               Start(s, cfg, [n \in {a_png} |-> im])
        \/ \E n \in {a_jpg, c_txt}, v \in BatchContents :
               Start(s, <<DefaultBorder, ScriptPadding(s)>>, [m \in {n} |-> v])

\* A directory of several files, the scripts' own arguments.
InitBatch ==
    \E s \in Scripts, D \in SUBSET Names :
        \E d \in [D -> BatchContents] :
            Start(s, <<DefaultBorder, ScriptPadding(s)>>, d)

\* ---------------------------------------------------------------- actions
filename == listing[idx]
InLoop == pc = "loop" /\ idx <= Len(listing)

\* if not filename.endswith(...): continue
SkipFile ==
    /\ InLoop
    /\ ~Eligible(filename)
    /\ idx' = idx + 1
    /\ UNCHANGED <<config, pc, locals, processed, skipped, outputs, visited,
                   needs_cropping>>

\* except Exception: skipped += 1, and the loop goes on
FailedAbort ==
    /\ skipped' = skipped + 1
    /\ idx' = idx
    /\ pc' = "done"
    /\ UNCHANGED <<config, processed, outputs, needs_cropping>>

Failed ==
    /\ skipped' = skipped + 1
    /\ idx' = idx + 1
    /\ pc' = "loop"
    /\ UNCHANGED <<config, processed, outputs, needs_cropping>>

\* img = Image.open(input_path)
OpenFile ==
    /\ InLoop
    /\ script \in CropScripts
    /\ Eligible(filename)
    /\ disk[filename] # Unreadable
    /\ img' = disk[filename]
    /\ pc' = "opened"
    /\ visited' = Append(visited, filename)
    /\ UNCHANGED <<config, idx, found, new_box, cropped, cropped_img, processed,
                   skipped, outputs, needs_cropping>>

\* Image.open raises
OpenFail ==
    /\ InLoop
    /\ script \in CropScripts
    /\ Eligible(filename)
    /\ disk[filename] = Unreadable
    /\ visited' = Append(visited, filename)
    /\ Failed
    /\ UNCHANGED locals

\* bbox = get_content_bounds(img) / remove_border_and_find_content(img) /
\* find_tight_content(img)
Detect(s, image, bt) ==
    IF s = "crop_logos"
    THEN [box |-> GetContentBounds(image), fallback |-> 0]
    ELSE FindContent(image, bt)

FindBox ==
    /\ pc = "opened"
    /\ IsImage(img)
    /\ found' = Detect(script, img, border_threshold)
    /\ pc' = "found"
    /\ UNCHANGED <<config, idx, img, new_box, cropped, cropped_img, processed,
                   skipped, outputs, visited, needs_cropping>>

\* the pixel data cannot be decoded: the crop function raises
DecodeFail ==
    /\ pc = "opened"
    /\ ~IsImage(img)
    /\ Failed
    /\ UNCHANGED <<locals, visited>>

\* if bbox is None: return img
KeepOriginalSquared ==
    /\ pc = "found"
    /\ found.box = None
    /\ cropped_img' = IF script = "crop_logos_tight" THEN img ELSE SquareV2(img)
    /\ pc' = "ready"
    /\ UNCHANGED <<config, idx, img, found, new_box, cropped, processed, skipped,
                   outputs, visited, needs_cropping>>

KeepOriginal ==
    /\ pc = "found"
    /\ found.box = None
    /\ cropped_img' = img
    /\ pc' = "ready"
    /\ UNCHANGED <<config, idx, img, found, new_box, cropped, processed, skipped,
                   outputs, visited, needs_cropping>>

\* the padded bounds and cropped = img.crop(...); crop_logos_tight returns it
CropPad ==
    /\ pc = "found"
    /\ found.box # None
    /\ new_box' = PadBox(found.box, padding_percent, img.w, img.h)
    /\ cropped' = CropImage(img, new_box')
    /\ IF script = "crop_logos_tight"
       THEN cropped_img' = cropped' /\ pc' = "ready"
       ELSE cropped_img' = cropped_img /\ pc' = "cropped"
    /\ UNCHANGED <<config, idx, img, found, processed, skipped, outputs, visited,
                   needs_cropping>>

\* the square canvas of crop_logos.py and crop_logos_v2.py
MakeSquare ==
    /\ pc = "cropped"
    /\ cropped_img' = IF script = "crop_logos"
                      THEN SquareLogos(cropped)
                      ELSE SquareV2(cropped)
    /\ pc' = "ready"
    /\ UNCHANGED <<config, idx, img, found, new_box, cropped, processed, skipped,
                   outputs, visited, needs_cropping>>

\* RGBA -> RGB on white, then cropped_img.save(final_output, 'JPEG', quality=95)
SaveFile ==
    /\ pc = "ready"
    /\ cropped_img' = ToRGB(cropped_img)
    /\ outputs' = [n \in DOMAIN outputs \cup {OutputName(filename)} |->
                     IF n = OutputName(filename) THEN cropped_img' ELSE outputs[n]]
    /\ processed' = processed + 1
    /\ idx' = idx + 1
    /\ pc' = "loop"
    /\ UNCHANGED <<config, img, found, new_box, cropped, skipped, visited,
                   needs_cropping>>

\* save raises before anything is written (the output cannot be created)
SaveFail ==
    /\ pc = "ready"
    /\ cropped_img' = ToRGB(cropped_img)
    /\ Failed
    /\ UNCHANGED <<img, found, new_box, cropped, visited>>

\* needs_crop: some side's padding exceeds 15% of that dimension
NeedsCrop(b, width, height) ==
    \/ b[1] * 100 > NeedsCropLevel * width
    \/ (width - b[3] - 1) * 100 > NeedsCropLevel * width
    \/ b[2] * 100 > NeedsCropLevel * height
    \/ (height - b[4] - 1) * 100 > NeedsCropLevel * height

\* one iteration of analyze_logos.py: result, error = analyze_logo(filepath)
AnalyzeFile ==
    /\ InLoop
    /\ script = "analyze_logos"
    /\ Eligible(filename)
    /\ visited' = Append(visited, filename)
    /\ idx' = idx + 1
    /\ IF IsImage(disk[filename])
       THEN /\ img' = ToRGBA(disk[filename])
            /\ found' = [box |-> AnalyzeBounds(disk[filename]), fallback |-> 0]
            /\ needs_cropping' =
                 IF found'.box # None /\ NeedsCrop(found'.box, img'.w, img'.h)
                 THEN Append(needs_cropping, filename)
                 ELSE needs_cropping
       ELSE /\ img' = img
            /\ found' = [box |-> None, fallback |-> 0]
            /\ needs_cropping' = needs_cropping
    /\ UNCHANGED <<config, pc, new_box, cropped, cropped_img, processed, skipped,
                   outputs>>

\* the for loop is exhausted
Finish ==
    /\ pc = "loop"
    /\ idx > Len(listing)
    /\ pc' = "done"
    /\ UNCHANGED <<config, idx, locals, processed, skipped, outputs, visited,
                   needs_cropping>>

Next ==
    \/ SkipFile
    \/ OpenFile
    \/ OpenFail
    \/ FindBox
    \/ DecodeFail
    \/ KeepOriginal
    \/ CropPad
    \/ MakeSquare
    \/ SaveFile
    \/ SaveFail
    \/ AnalyzeFile
    \/ Finish

Spec == Init /\ [][Next]_vars
SpecBatch == InitBatch /\ [][Next]_vars

\* ================================================================= claims
BorderScripts == {"crop_logos_v2", "crop_logos_tight"}
SquareScripts == {"crop_logos", "crop_logos_v2"}

\* The detector has returned for the image in img.
Detected == pc \in {"found", "cropped", "ready"}
\* The padded crop of the image in img has been taken.
Padded == pc = "cropped" \/ (pc = "ready" /\ found.box # None)
\* The crop in cropped has been pasted on the square canvas in cropped_img.
Squared == script \in SquareScripts /\ pc = "ready" /\ found.box # None

\* C1: whenever find_tight_content / remove_border_and_find_content returns
\* a box for an image and a border margin, 0 <= x_min < x_max <= width and
\* 0 <= y_min < y_max <= height.
C1_BoxInsideImage ==
    (script \in BorderScripts /\ Detected /\ found.box # None) =>
        /\ 0 <= found.box[1] /\ found.box[1] < found.box[3] /\ found.box[3] <= img.w
        /\ 0 <= found.box[2] /\ found.box[2] < found.box[4] /\ found.box[4] <= img.h

\* A box found behind a one-pixel margin on both sides of a 3- or 4-wide image.
C1_Witness ==
    /\ script \in BorderScripts /\ pc = "found" /\ found.box # None
    /\ border_threshold = 34
    /\ found.box[1] >= 1 /\ found.box[3] < img.w

\* C2: the padding step computes pad = floor(content * p) per axis and
\* returns (max(0, x_min - pad_x), max(0, y_min - pad_y),
\* min(image_w, x_max + pad_x), min(image_h, y_max + pad_y)); the crop
\* rectangle has no coordinate outside [0, image_w] x [0, image_h].
FloorPercent(n, percent) ==
    CHOOSE k \in 0 .. n * percent : k * 100 <= n * percent /\ n * percent < (k + 1) * 100

C2_PaddedBoxInsideImage ==
    (script \in CropScripts /\ Padded) =>
        LET b == found.box
            pad_x == FloorPercent(b[3] - b[1], padding_percent)
            pad_y == FloorPercent(b[4] - b[2], padding_percent)
        IN  /\ new_box[1] = (IF b[1] - pad_x < 0 THEN 0 ELSE b[1] - pad_x)
            /\ new_box[2] = (IF b[2] - pad_y < 0 THEN 0 ELSE b[2] - pad_y)
            /\ new_box[3] = (IF b[3] + pad_x > img.w THEN img.w ELSE b[3] + pad_x)
            /\ new_box[4] = (IF b[4] + pad_y > img.h THEN img.h ELSE b[4] + pad_y)
            /\ 0 <= new_box[1] /\ new_box[1] < new_box[3] /\ new_box[3] <= img.w
            /\ 0 <= new_box[2] /\ new_box[2] < new_box[4] /\ new_box[4] <= img.h
            /\ cropped.w = new_box[3] - new_box[1]
            /\ cropped.h = new_box[4] - new_box[2]

\* A 2-wide, 1-tall box at the left edge padded by 50%: clamped at the left,
\* grown by one pixel at the right, pad 0 on the 1-pixel axis.
C2_Witness ==
    /\ script \in CropScripts /\ Padded
    /\ padding_percent = 50
    /\ found.box = <<0, 0, 2, 1>>
    /\ new_box = <<0, 0, 3, 1>>

\* The canvas pixel that the crop's pixel c lands on, for paste offset off.
At(canvas, c, off) == canvas.px[<<c[1] + off[1], c[2] + off[2]>>]
InCrop(c, off) ==
    /\ c[1] - off[1] \in 0 .. cropped.w - 1
    /\ c[2] - off[2] \in 0 .. cropped.h - 1
Offsets == (0 .. cropped_img.w - cropped.w) \X (0 .. cropped_img.h - cropped.h)
Side == IF cropped.w >= cropped.h THEN cropped.w ELSE cropped.h

\* C3 as stated: the square step returns a canvas with width = height =
\* max(w, h) in which every pixel of the crop (RGB or RGBA, transparent ones
\* included) appears unchanged, only background pixels being added around it.
C3_EveryPixelUnchanged ==
    Squared =>
        /\ cropped_img.w = Side /\ cropped_img.h = Side
        /\ \E off \in Offsets :
               \A c \in DOMAIN cropped_img.px :
                   IF InCrop(c, off)
                   THEN cropped_img.px[c] = cropped.px[<<c[1] - off[1], c[2] - off[2]>>]
                   ELSE cropped_img.px[c] = White

\* C3 amended: the canvas is max(w, h) square; every pixel of an RGB crop and
\* every fully opaque pixel of an RGBA crop appears unchanged; a pixel with
\* alpha < 255 is changed: crop_logos.py blends it over opaque white through
\* its own alpha, crop_logos_v2.py keeps its colour bands and drops the alpha
\* band; all other canvas pixels are white background.
C3_OpaquePixelsUnchanged ==
    Squared =>
        /\ cropped_img.w = Side /\ cropped_img.h = Side
        /\ \E off \in Offsets :
               \A c \in DOMAIN cropped_img.px :
                   IF InCrop(c, off)
                   THEN LET p == cropped.px[<<c[1] - off[1], c[2] - off[2]>>]
                            q == cropped_img.px[c]
                        IN  /\ p[4] = 255 => q = p
                            /\ (p[4] < 255 /\ script = "crop_logos") =>
                                   /\ <<q[1], q[2], q[3]>> =
                                        <<Blend8(255, p[1], p[4]), Blend8(255, p[2], p[4]),
                                          Blend8(255, p[3], p[4])>>
                                   /\ q[4] >= p[4]
                            /\ (p[4] < 255 /\ script = "crop_logos_v2") =>
                                   q = <<p[1], p[2], p[3], 255>>
                   ELSE cropped_img.px[c] = White

\* A 1x2 RGBA crop holding a half-transparent pixel on a 2x2 canvas.
C3_Witness ==
    /\ Squared
    /\ cropped.mode = "RGBA" /\ cropped.w = 1 /\ cropped.h = 2
    /\ \E c \in DOMAIN cropped.px : cropped.px[c] = Half
    /\ cropped_img.w = 2

\* C4: the crop is pasted at (floor((side - w) / 2), floor((side - h) / 2)),
\* side = max(w, h); the background before the crop never exceeds the
\* background after it and the two differ by at most 1 (the odd pixel lies
\* on the right / at the bottom).
C4_CenteredExtraAfter ==
    Squared =>
        \E off \in Offsets :
            /\ 2 * off[1] <= Side - cropped.w /\ Side - cropped.w < 2 * off[1] + 2
            /\ 2 * off[2] <= Side - cropped.h /\ Side - cropped.h < 2 * off[2] + 2
            /\ off[1] <= cropped_img.w - cropped.w - off[1]
            /\ cropped_img.w - cropped.w - off[1] <= off[1] + 1
            /\ off[2] <= cropped_img.h - cropped.h - off[2]
            /\ cropped_img.h - cropped.h - off[2] <= off[2] + 1
            /\ \A c \in DOMAIN cropped_img.px :
                   IF InCrop(c, off)
                   THEN LET p == cropped.px[<<c[1] - off[1], c[2] - off[2]>>]
                        IN  p[4] = 255 => cropped_img.px[c] = p
                   ELSE cropped_img.px[c] = White

\* A 4x1 crop of non-white pixels on a 4x4 canvas: it sits in row 1, with
\* row 0 and rows 2 and 3 background.
C4_Witness ==
    /\ Squared
    /\ cropped.w = 4 /\ cropped.h = 1 /\ cropped_img.h = 4
    /\ \A x \in 0 .. 3 : cropped.px[<<x, 0>>] = Black
    /\ \A x \in 0 .. 3 :
           /\ cropped_img.px[<<x, 0>>] = White
           /\ cropped_img.px[<<x, 1>>] = Black
           /\ cropped_img.px[<<x, 2>>] = White
           /\ cropped_img.px[<<x, 3>>] = White

\* ---------------------------------------------------- detector claims
Uniform(image) == \A c, d \in DOMAIN image.px : image.px[c] = image.px[d]
NearWhite(p) == p[1] > 240 /\ p[2] > 240 /\ p[3] > 240
NearBlack(p) == p[1] < 15 /\ p[2] < 15 /\ p[3] < 15
\* A fully transparent pixel flattens to white, a fully opaque one to itself.
Opaque(p) == p[4] = 255
Clear(p) == p[4] = 0

\* analyze_logo has returned for the image in img.
Analyzed == script = "analyze_logos" /\ visited # <<>> /\ IsImage(img)

\* The margins and the interior search rectangle of the image in img.
Bx == FloorPercent(img.w, border_threshold)
By == FloorPercent(img.h, border_threshold)
Interior ==
    {c \in DOMAIN img.px : /\ Bx <= c[1] /\ c[1] < img.w - Bx
                           /\ By <= c[2] /\ c[2] < img.h - By}

\* C5 as stated: an image of one uniform background-classified colour yields
\* no content box under every rule: the alpha-aware rule of analyze_logo
\* (alpha <= 50, or every channel >= 240) and the near-white-or-near-black
\* rule of find_tight_content / remove_border_and_find_content with its
\* near-white fallback.
C5_UniformBackgroundNoBox ==
    /\ (Analyzed /\ Uniform(img)) =>
           LET p == img.px[<<0, 0>>]
           IN  (p[4] <= 50 \/ (p[1] >= 240 /\ p[2] >= 240 /\ p[3] >= 240)) =>
                   found.box = None
    /\ (script \in BorderScripts /\ Detected /\ Uniform(img)) =>
           LET p == img.px[<<0, 0>>]
           IN  /\ Clear(p) => found.box = None
               /\ (Opaque(p) /\ (NearWhite(p) \/ NearBlack(p))) => found.box = None

\* C5 amended: an image of one uniform near-white colour (alpha <= 50 or every
\* channel >= 240 for analyze_logo; every channel > 240 once flattened on
\* white for the other detectors) yields no content box under every rule; a
\* uniform near-black image is background for the near-white-or-near-black
\* mask but the near-white fallback returns a box for it.
C5_UniformNearWhiteNoBox ==
    /\ (Analyzed /\ Uniform(img)) =>
           LET p == img.px[<<0, 0>>]
           IN  (p[4] <= 50 \/ (p[1] >= 240 /\ p[2] >= 240 /\ p[3] >= 240)) =>
                   found.box = None
    /\ (script \in BorderScripts /\ Detected /\ Uniform(img)) =>
           LET p == img.px[<<0, 0>>]
           IN  /\ Clear(p) => found.box = None
               /\ (Opaque(p) /\ NearWhite(p)) => found.box = None
               /\ (Opaque(p) /\ NearBlack(p) /\ Interior # {}) =>
                      found.box # None /\ found.fallback = 1

\* A 2x2 image, every pixel opaque (255,255,255): both masks empty, no box.
C5_Witness ==
    /\ script \in BorderScripts /\ pc = "found"
    /\ img.w = 2 /\ img.h = 2
    /\ \A c \in DOMAIN img.px : img.px[c] = White
    /\ found = [box |-> None, fallback |-> 1]

\* C6: for an image whose every pixel is pure black (0,0,0), the
\* near-white-or-near-black mask is empty, the near-white fallback is applied
\* once over the same interior and the box returned is the whole interior
\* [border_x, width - border_x) x [border_y, height - border_y); with the
\* scripts' 5% margin the interior is never empty, so the box is non-null.
C6_AllBlackFullInterior ==
    (script \in BorderScripts /\ Detected /\ \A c \in DOMAIN img.px : img.px[c] = Black) =>
        /\ border_threshold = DefaultBorder => found.box # None
        /\ Interior # {} =>
               /\ found.fallback = 1
               /\ found.box = <<Bx, By, img.w - Bx, img.h - By>>

\* A black image 3 wide behind a one-pixel margin: the box is its middle column.
C6_Witness ==
    /\ script \in BorderScripts /\ pc = "found"
    /\ \A c \in DOMAIN img.px : img.px[c] = Black
    /\ img.w = 3 /\ Bx = 1
    /\ found = [box |-> <<1, 0, 2, img.h>>, fallback |-> 1]

\* C9 as stated: for every image size and every margin fraction of at least
\* 50% the interior rectangle is empty and the detector returns None.
C9_HalfMarginReturnsNone ==
    (script \in BorderScripts /\ Detected /\ border_threshold >= 50) =>
        Interior = {} /\ found.box = None

\* C9 amended: the interior is empty exactly when 2*border_x >= width or
\* 2*border_y >= height, and then the detector returns None; a fraction of
\* at least 50% empties it when the width or the height is even, and a
\* fraction of at least 100% always, but at 50% an image of odd width and odd
\* height keeps an interior, and a non-white pixel in it yields a box.
C9_EmptyInteriorReturnsNone ==
    (script \in BorderScripts /\ Detected) =>
        /\ Interior = {} <=> (2 * Bx >= img.w \/ 2 * By >= img.h)
        /\ Interior = {} => found.box = None
        /\ (border_threshold >= 50 /\ (img.w % 2 = 0 \/ img.h % 2 = 0)) =>
               Interior = {} /\ found.box = None
        /\ border_threshold >= 100 => Interior = {} /\ found.box = None
        /\ (\E c \in Interior : Opaque(img.px[c]) /\ ~NearWhite(img.px[c])) =>
               found.box # None

\* A 4x1 image of black pixels under a 50% margin: no interior, no box.
C9_Witness ==
    /\ script \in BorderScripts /\ pc = "found"
    /\ border_threshold = 50
    /\ img.w = 4 /\ \A c \in DOMAIN img.px : img.px[c] = Black
    /\ found.box = None

\* C10: the box is the smallest rectangle around the active mask's pixels in
\* the interior.  The active mask is the pixels neither near-white nor
\* near-black when the interior holds one, else the pixels not near-white.
\* Every active pixel lies in the box, each of the four box edges holds one,
\* and neither the pixels of the margin nor, when a mid-tone pixel exists,
\* the near-black pixels change the result.
Flat(c) == IF img.mode = "RGBA" THEN CompositeOnWhite(img.px[c]) ELSE img.px[c]
MidTones == {c \in Interior : ~NearWhite(Flat(c)) /\ ~NearBlack(Flat(c))}
Active == IF MidTones # {} THEN MidTones ELSE {c \in Interior : ~NearWhite(Flat(c))}
Palette == IF img.mode = "RGBA" THEN PaletteRGBA ELSE PaletteRGB

Range(seq) == {seq[i] : i \in 1 .. Len(seq)}
\* The eligible files the loop has finished with, and whether one is in the
\* try block now.
Completed == SelectSeq(SubSeq(listing, 1, idx - 1), Eligible)
InTry == pc \in {"opened", "found", "cropped", "ready"}
\* C7: after a batch run the output directory holds one output file per
\* processed input: the number of distinct output files equals the processed
\* count, that is, no two processed inputs write the same output path.
C7_OneOutputPerProcessedInput ==
    (script \in CropScripts /\ pc = "done") =>
        Cardinality(DOMAIN outputs) = processed

\* C8: the batch loop never aborts on one file's failure.  The listing is in
\* sorted order and each eligible file enters the try block once, in that
\* order; a file that cannot be opened or decoded is counted as skipped and
\* the loop moves on; at the end processed + skipped is the number of
\* eligible files.
C8_BatchNeverAborts ==
    script \in CropScripts =>
        /\ \A i, j \in 1 .. Len(listing) : i < j => StrLess(listing[i], listing[j])
        /\ visited = Completed \o (IF InTry THEN <<listing[idx]>> ELSE <<>>)
        /\ processed + skipped = Len(Completed)
        /\ skipped >= Cardinality({f \in Range(Completed) : ~IsImage(disk[f])})
        /\ processed <= Cardinality({f \in Range(Completed) : IsImage(disk[f])})
        /\ pc = "done" =>
               /\ idx = Len(listing) + 1
               /\ processed + skipped = Cardinality({f \in DOMAIN disk : Eligible(f)})

\* A finished run in which a.jpg could not be opened, a.png could not be
\* decoded and the later b.jpeg was still processed.
C8_Witness ==
    /\ script \in CropScripts /\ pc = "done"
    /\ a_jpg \in DOMAIN disk /\ disk[a_jpg] = Unreadable
    /\ a_png \in DOMAIN disk /\ disk[a_png] = Truncated
    /\ b_jpeg \in DOMAIN outputs
    /\ skipped = 2 /\ processed = 1

\* ------------------------------------------------- no-content claim
\* The crop function has returned for an image in which no content was found.
NoContent == script \in CropScripts /\ pc = "ready" /\ found.box = None

\* C11: when content detection returns None the crop function returns the
\* input image, dimensions and pixels unchanged (no padding, no square
\* canvas, also in the square-forcing scripts); no content is not a failure:
\* the loop goes on to save the image (flattened to RGB for the JPEG) and
\* counts the file as processed, and only a save that raises counts it as
\* skipped; so an output of crop_logos.py or crop_logos_v2.py is square unless
\* no content was detected.
C11_NoContentPassThrough ==
    [][/\ NoContent' => (cropped_img' = img' /\ IsImage(img'))
       /\ (pc = "found" /\ found.box = None) =>
              (pc' = "ready" /\ processed' = processed /\ skipped' = skipped)
       /\ NoContent =>
              \/ /\ processed' = processed + 1 /\ skipped' = skipped
                 /\ OutputName(filename) \in DOMAIN outputs'
                 /\ outputs'[OutputName(filename)] = ToRGB(img)
                 /\ outputs'[OutputName(filename)].w = img.w
                 /\ outputs'[OutputName(filename)].h = img.h
              \/ /\ skipped' = skipped + 1 /\ processed' = processed
                 /\ outputs' = outputs
       /\ (script \in SquareScripts /\ pc = "ready" /\ processed' = processed + 1) =>
              \/ found.box = None
              \/ outputs'[OutputName(filename)].w = outputs'[OutputName(filename)].h
      ]_vars

\* A fully transparent 2x1 RGBA image run through a square-forcing script:
\* no content, and the file saved and counted is the 2x1 image itself.
C11_Witness ==
    /\ script \in SquareScripts /\ pc = "loop" /\ processed = 1 /\ skipped = 0
    /\ found.box = None
    /\ img.mode = "RGBA" /\ img.w = 2 /\ img.h = 1
    /\ a_jpg \in DOMAIN outputs
    /\ outputs[a_jpg] = ToRGB(img)
    /\ outputs[a_jpg].w = 2 /\ outputs[a_jpg].h = 1

====
